---- MODULE Spec2Model ----
(***************************************************************************)
(* gitLore repository enricher (package main, enriched revision): the      *)
(* worker pool of main(), the four per-repository fetchers, the 202 retry  *)
(* loop of fetchCommitActivity52W and the summary fold, as a state machine.*)
(* Indices are 0-based as in the Go source.                                *)
(***************************************************************************)
EXTENDS Integers, Sequences, FiniteSets, TLC

\* ------------------------------------------------------------------ bounds
\* Largest number of repositories the listing returns in a checked run.
MaxN == 2
\* Largest worker count of a checked run (main sets workers := 6).
MaxWorkers == 2
\* Number of weeks in a ready commit_activity answer (GitHub sends 52).
WindowLen == 2

\* ------------------------------------------------------- program constants
\* fetchCommitActivity52W: the sleep after each 202, in milliseconds.
backoffs == <<700, 1200, 2000, 3000>>
\* fetchLastCommit: longest commit message kept whole.
MsgCap == 100
\* fetchContributors: per_page of the request, and the cap of the count.
ContribCap == 10
\* main: the sleep at the end of each iteration of a worker, in milliseconds.
PaceMs == 100

\* ------------------------------------------------------------ Go values
\* A nil slice or map marshals to null, an empty one to [] or {}.
NilSlice == [nil |-> TRUE, elems |-> <<>>]

Slice(s) == [nil |-> FALSE, elems |-> s]

GoLen(x) == Len(x.elems)

RECURSIVE SumSeq(_)
SumSeq(s) == IF s = <<>> THEN 0 ELSE Head(s) + SumSeq(Tail(s))

\* A map[string]int as a function on the keys it holds; m[k]++.
EmptyMap == [k \in {} |-> 0]

IncKey(m, k) == IF k \in DOMAIN m THEN [m EXCEPT ![k] = @ + 1] ELSE m @@ (k :> 1)

\* ------------------------------------------------------- the upstream API
\* The base attributes the listing returns for the repository at index i.
Languages == <<"Go", "Go", "", "Rust">>

OwnerTypes == <<"User", "Organization", "", "User">>

LicenseKeys == <<"mit", "", "mit", "apache-2.0">>

LicenseNames == <<"MIT License", "Unused", "MIT License", "Apache License 2.0">>

TopicLists == << <<"cli">>, <<>>, <<"cli", "viz">>, <<"viz">> >>

\* Timestamps as the API sends them; the third is not RFC3339.
Stamps == <<"2024-03-01T00:00:00Z", "2024-01-01T02:00:00+02:00", "yesterday", "2023-06-01T12:00:00Z">>

Pick(table, i) == table[(i % Len(table)) + 1]

ghRepo(i) ==
  [ FullName |-> <<"owner", i>>,
    Name |-> <<"repo", i>>,
    Private |-> (i % 2 = 1),
    Fork |-> (i % 3 = 2),
    Archived |-> (i % 3 = 0),
    Language |-> Pick(Languages, i),
    SizeKB |-> i * 700,
    StargazersCount |-> i,
    WatchersCount |-> i + 1,
    ForksCount |-> i % 2,
    CreatedAt |-> Pick(Stamps, i + 3),
    UpdatedAt |-> Pick(Stamps, i),
    PushedAt |-> Pick(Stamps, i + 1),
    HTMLURL |-> <<"https://github.com/owner", i>>,
    Topics |-> Pick(TopicLists, i),
    OwnerType |-> Pick(OwnerTypes, i),
    LicenseKey |-> Pick(LicenseKeys, i),
    LicenseName |-> Pick(LicenseNames, i) ]

\* time.Parse(time.RFC3339, s): ok and the instant (hours since an epoch).
ParseRFC3339(s) ==
  CASE s = "2024-03-01T00:00:00Z" -> [ok |-> TRUE, t |-> 1440]
    [] s = "2024-01-01T02:00:00+02:00" -> [ok |-> TRUE, t |-> 0]
    [] s = "2024-01-01T00:00:00Z" -> [ok |-> TRUE, t |-> 0]
    [] s = "2023-06-01T12:00:00Z" -> [ok |-> TRUE, t |-> -5124]
    [] OTHER -> [ok |-> FALSE, t |-> 0]

\* t.UTC().Format(time.RFC3339).
FormatUTC(t) ==
  CASE t = 1440 -> "2024-03-01T00:00:00Z"
    [] t = 0 -> "2024-01-01T00:00:00Z"
    [] t = -5124 -> "2023-06-01T12:00:00Z"
    [] OTHER -> "?"

\* humanSizeFromKB: the string as the pair of the value in tenths of the unit
\* (%.0f for B and KB, %.1f above, rounded half up) and the unit by powers of
\* 1024; the empty string is <<0, "">>.
humanSizeFromKB(kb) ==
  IF kb <= 0 THEN <<0, "B">>
  ELSE IF kb < 1024 THEN <<kb * 10, "KB">>
  ELSE IF kb < 1024 * 1024 THEN <<(kb * 10 + 512) \div 1024, "MB">>
  ELSE IF kb < 1024 * 1024 * 1024 THEN <<(kb * 10 + 524288) \div 1048576, "GB">>
  ELSE <<(kb * 10 + 536870912) \div 1073741824, "TB">>

\* What one repository's four endpoints answer in a run.  commits, langs and
\* contribs: the outcome of the single request.  activity: the answer to
\* request number attempt (0-based), of which the loop makes at most
\* Len(backoffs) + 1.
NumAttempts == Len(backoffs) + 1

ActivityFinals == {"ready", "failed", "neterr", "parseerr"}

ActivityScripts ==
  { [a \in 0..(NumAttempts - 1) |-> IF a < k THEN "computing" ELSE f] :
      k \in 0..NumAttempts, f \in ActivityFinals }

AllBehaviours ==
  [ commits : {"neterr", "failed", "parseerr", "zero", "ok", "long"},
    activity : ActivityScripts,
    langs : {"neterr", "failed", "parseerr", "empty", "ok"},
    contribs : {"neterr", "failed", "parseerr", "empty", "ok"} ]

Script(k, f) == [a \in 0..(NumAttempts - 1) |-> IF a < k THEN "computing" ELSE f]

\* A few behaviours that between them take every branch of a job.
Behaviours ==
  { [commits |-> "ok", activity |-> Script(0, "ready"), langs |-> "ok", contribs |-> "ok"],
    [commits |-> "zero", activity |-> Script(NumAttempts, "ready"), langs |-> "empty", contribs |-> "failed"],
    [commits |-> "failed", activity |-> Script(1, "ready"), langs |-> "neterr", contribs |-> "empty"],
    [commits |-> "long", activity |-> Script(0, "failed"), langs |-> "ok", contribs |-> "ok"] }

\* ------------------------------------------------------------- payloads
\* What the endpoints of the repository named full send when they answer with data.
CommitDates == <<"2024-02-02T00:00:00Z", "2024-02-03T10:00:00Z", "2023-12-24T18:30:00Z">>

CommitDate(full) == Pick(CommitDates, full[2])

ShortMsg == <<"f", "i", "x">>

LongMsg == [k \in 1..(MsgCap + 1) |-> IF k <= MsgCap THEN "a" ELSE "b"]

\* A message of n characters that differ from place to place.
MsgOfLen(n) == [k \in 1..n |-> Pick(<<"a", "b", "c", "d", "e", "f", "g">>, k)]

\* The message of the newest commit, by the kind of answer.
CommitMsg(kind) ==
  CASE kind = "long" -> LongMsg
    [] kind = "longer" -> MsgOfLen(MsgCap + MsgCap)
    [] kind = "cap" -> MsgOfLen(MsgCap)
    [] kind = "under" -> MsgOfLen(MsgCap - 1)
    [] kind = "blank" -> <<>>
    [] OTHER -> ShortMsg

Weeks(full) == [k \in 1..WindowLen |-> [Total |-> full[2] + k, Week |-> k]]

LangMap(full) == ("Go" :> 100 + full[2]) @@ ("Shell" :> 7)

Contribs(full) ==
  <<[Login |-> "ann", Contributions |-> 9 + full[2]], [Login |-> "bob", Contributions |-> 2]>>

\* A list of n contributors in descending order of contributions.
ContribsOfLen(n, full) ==
  [k \in 1..n |-> [Login |-> Pick(<<"ann", "bob", "cy">>, k), Contributions |-> n - k + 1 + full[2]]]

\* The body of the contributors endpoint's answer, by the kind of answer:
\* nothing, exactly per_page entries, one more than per_page, two entries in
\* ascending order, or the usual two.
ContribList(kind, full) ==
  CASE kind = "empty" -> <<>>
    [] kind = "full" -> ContribsOfLen(ContribCap, full)
    [] kind = "over" -> ContribsOfLen(ContribCap + 1, full)
    [] kind = "unsorted" -> <<[Login |-> "bob", Contributions |-> 2], [Login |-> "ann", Contributions |-> 9 + full[2]]>>
    [] OTHER -> Contribs(full)

\* ------------------------------------------------------- the four fetchers
Failed(outcome) == outcome \in {"neterr", "failed", "parseerr"}

\* Bug: a message of exactly the cap's length is cut too.
Truncate_AtCap(msg) ==
  IF Len(msg) >= MsgCap THEN SubSeq(msg, 1, MsgCap) \o <<".", ".", ".">> ELSE msg

\* if len(msg) > 100 { msg = msg[:100] + "..." }
Truncate(msg) ==
  IF Len(msg) > MsgCap THEN SubSeq(msg, 1, MsgCap) \o <<".", ".", ".">> ELSE msg

\* Bug: an empty list of commits is reported as an error.
fetchLastCommit_ZeroIsError(b, full) ==
  IF Failed(b.commits) \/ b.commits = "zero" THEN [date |-> "", msg |-> <<>>, err |-> TRUE]
  ELSE [date |-> CommitDate(full), msg |-> Truncate(CommitMsg(b.commits)), err |-> FALSE]

\* fetchLastCommit: (date, message, error).
fetchLastCommit(b, full) ==
  IF Failed(b.commits) THEN [date |-> "", msg |-> <<>>, err |-> TRUE]
  ELSE IF b.commits = "zero" THEN [date |-> "", msg |-> <<>>, err |-> FALSE]
  ELSE [date |-> CommitDate(full), msg |-> Truncate(CommitMsg(b.commits)), err |-> FALSE]

\* Bug: the loop gives up one attempt early.
ActivityPass_GivesUpEarly(answer, attempt, full) ==
  IF answer = "neterr" THEN [ret |-> TRUE, weeks |-> NilSlice, pending |-> FALSE, err |-> TRUE]
  ELSE IF answer = "computing" THEN
    IF attempt = Len(backoffs) - 1
    THEN [ret |-> TRUE, weeks |-> NilSlice, pending |-> TRUE, err |-> FALSE]
    ELSE [ret |-> FALSE, sleep |-> backoffs[attempt + 1]]
  ELSE IF answer \in {"failed", "parseerr"}
    THEN [ret |-> TRUE, weeks |-> NilSlice, pending |-> FALSE, err |-> TRUE]
  ELSE [ret |-> TRUE, weeks |-> Slice(Weeks(full)), pending |-> FALSE, err |-> FALSE]

\* Bug: a transport error is retried like a 202.
ActivityPass_RetriesOnTransport(answer, attempt, full) ==
  IF answer \in {"computing", "neterr"} THEN
    IF attempt = Len(backoffs)
    THEN [ret |-> TRUE, weeks |-> NilSlice, pending |-> TRUE, err |-> FALSE]
    ELSE [ret |-> FALSE, sleep |-> backoffs[attempt + 1]]
  ELSE IF answer \in {"failed", "parseerr"}
    THEN [ret |-> TRUE, weeks |-> NilSlice, pending |-> FALSE, err |-> TRUE]
  ELSE [ret |-> TRUE, weeks |-> Slice(Weeks(full)), pending |-> FALSE, err |-> FALSE]

\* Bug: a failed status is retried like a 202.
ActivityPass_RetriesOnFailure(answer, attempt, full) ==
  IF answer = "neterr" THEN [ret |-> TRUE, weeks |-> NilSlice, pending |-> FALSE, err |-> TRUE]
  ELSE IF answer \in {"computing", "failed"} THEN
    IF attempt = Len(backoffs)
    THEN [ret |-> TRUE, weeks |-> NilSlice, pending |-> answer = "computing", err |-> answer = "failed"]
    ELSE [ret |-> FALSE, sleep |-> backoffs[attempt + 1]]
  ELSE IF answer = "parseerr"
    THEN [ret |-> TRUE, weeks |-> NilSlice, pending |-> FALSE, err |-> TRUE]
  ELSE [ret |-> TRUE, weeks |-> Slice(Weeks(full)), pending |-> FALSE, err |-> FALSE]

\* One pass of the loop of fetchCommitActivity52W, at the given attempt, on
\* the given answer: the function returns (weeks, pending, error), or sleeps
\* backoffs[attempt] and goes round again.
ActivityPass(answer, attempt, full) ==
  IF answer = "neterr" THEN [ret |-> TRUE, weeks |-> NilSlice, pending |-> FALSE, err |-> TRUE]
  ELSE IF answer = "computing" THEN
    IF attempt = Len(backoffs)
    THEN [ret |-> TRUE, weeks |-> NilSlice, pending |-> TRUE, err |-> FALSE]
    ELSE [ret |-> FALSE, sleep |-> backoffs[attempt + 1]]
  ELSE IF answer \in {"failed", "parseerr"}
    THEN [ret |-> TRUE, weeks |-> NilSlice, pending |-> FALSE, err |-> TRUE]
  ELSE [ret |-> TRUE, weeks |-> Slice(Weeks(full)), pending |-> FALSE, err |-> FALSE]

\* fetchLanguages: (map, error); a nil map has no keys.
fetchLanguages(b, full) ==
  IF Failed(b.langs) THEN [langs |-> EmptyMap, err |-> TRUE]
  ELSE IF b.langs = "empty" THEN [langs |-> EmptyMap, err |-> FALSE]
  ELSE [langs |-> LangMap(full), err |-> FALSE]

\* fetchContributors: (list, count, error).
fetchContributors(b, full) ==
  IF Failed(b.contribs) THEN [contribs |-> NilSlice, total |-> 0, err |-> TRUE]
  ELSE LET list == ContribList(b.contribs, full)
       IN [ contribs |-> Slice(list),
            total |-> IF Len(list) = ContribCap THEN ContribCap ELSE Len(list),
            err |-> FALSE ]

\* ------------------------------------------------------------- the records
\* main: the base output object of one listed repository.
outRepo(r) ==
  [ Name |-> r.Name, FullName |-> r.FullName, Private |-> r.Private, Fork |-> r.Fork,
    Archived |-> r.Archived, Language |-> r.Language, Topics |-> r.Topics,
    SizeKB |-> r.SizeKB, SizeReadable |-> humanSizeFromKB(r.SizeKB),
    Stars |-> r.StargazersCount, Forks |-> r.ForksCount, Watchers |-> r.WatchersCount,
    CreatedAt |-> r.CreatedAt, UpdatedAt |-> r.UpdatedAt, PushedAt |-> r.PushedAt,
    HTMLURL |-> r.HTMLURL, OwnerType |-> r.OwnerType,
    License |-> IF r.LicenseKey # "" THEN r.LicenseName ELSE "",
    LastCommitAt |-> "", LastCommitMessage |-> <<>>,
    WeeklyCommits52W |-> NilSlice, WeeklyStats52W |-> NilSlice,
    LanguageBreakdown |-> EmptyMap, TopContributors |-> NilSlice,
    ContributorCount |-> 0, TotalCommits |-> 0, StatsCachePending |-> FALSE ]

\* Bug: the record is replaced by a new one that holds only the fetched fields.
StoreLastCommit_NewRecord(r, res) ==
  IF ~res.err
  THEN [ Name |-> <<>>, FullName |-> <<>>, Private |-> FALSE, Fork |-> FALSE,
         Archived |-> FALSE, Language |-> "", Topics |-> <<>>,
         SizeKB |-> 0, SizeReadable |-> <<0, "">>,
         Stars |-> 0, Forks |-> 0, Watchers |-> 0,
         CreatedAt |-> "", UpdatedAt |-> "", PushedAt |-> "",
         HTMLURL |-> <<>>, OwnerType |-> "", License |-> "",
         LastCommitAt |-> res.date, LastCommitMessage |-> res.msg,
         WeeklyCommits52W |-> NilSlice, WeeklyStats52W |-> NilSlice,
         LanguageBreakdown |-> EmptyMap, TopContributors |-> NilSlice,
         ContributorCount |-> 0, TotalCommits |-> 0, StatsCachePending |-> FALSE ]
  ELSE r

\* The worker's stores into out[i] after each fetch.
StoreLastCommit(r, res) ==
  IF ~res.err THEN [r EXCEPT !.LastCommitAt = res.date, !.LastCommitMessage = res.msg] ELSE r

\* Bug: the pending flag is not stored.
StoreActivity_DropsPending(r, res) ==
  IF ~res.err
  THEN LET totals == [k \in 1..GoLen(res.weeks) |-> res.weeks.elems[k].Total]
       IN [r EXCEPT !.WeeklyStats52W = res.weeks,
                    !.WeeklyCommits52W = Slice(totals),
                    !.TotalCommits = SumSeq(totals)]
  ELSE r

\* Bug: the results are stored whether or not the fetch failed.
StoreActivity_IgnoresError(r, res) ==
  LET totals == [k \in 1..GoLen(res.weeks) |-> res.weeks.elems[k].Total]
  IN [r EXCEPT !.WeeklyStats52W = res.weeks,
               !.StatsCachePending = res.pending,
               !.WeeklyCommits52W = Slice(totals),
               !.TotalCommits = SumSeq(totals)]

\* Bug: the flag is stored negated.
StoreActivity_PendingInverted(r, res) ==
  IF ~res.err
  THEN LET totals == [k \in 1..GoLen(res.weeks) |-> res.weeks.elems[k].Total]
       IN [r EXCEPT !.WeeklyStats52W = res.weeks,
                    !.StatsCachePending = ~res.pending,
                    !.WeeklyCommits52W = Slice(totals),
                    !.TotalCommits = SumSeq(totals)]
  ELSE r

\* Bug: the total is the last week's, not the sum of the weeks.
StoreActivity_LastWeekOnly(r, res) ==
  IF ~res.err
  THEN LET totals == [k \in 1..GoLen(res.weeks) |-> res.weeks.elems[k].Total]
       IN [r EXCEPT !.WeeklyStats52W = res.weeks,
                    !.StatsCachePending = res.pending,
                    !.WeeklyCommits52W = Slice(totals),
                    !.TotalCommits = IF totals = <<>> THEN 0 ELSE totals[Len(totals)]]
  ELSE r

StoreActivity(r, res) ==
  IF ~res.err
  THEN LET totals == [k \in 1..GoLen(res.weeks) |-> res.weeks.elems[k].Total]
       IN [r EXCEPT !.WeeklyStats52W = res.weeks,
                    !.StatsCachePending = res.pending,
                    !.WeeklyCommits52W = Slice(totals),
                    !.TotalCommits = SumSeq(totals)]
  ELSE r

StoreLanguages(r, res) ==
  IF ~res.err /\ Cardinality(DOMAIN res.langs) > 0
  THEN [r EXCEPT !.LanguageBreakdown = res.langs] ELSE r

StoreContributors(r, res) ==
  IF ~res.err
  THEN [r EXCEPT !.TopContributors = res.contribs, !.ContributorCount = res.total] ELSE r

\* -------------------------------------------------------------- the summary
\* main: var sum summary, the three maps made, and the eight locals of the
\* timestamp scan; GeneratedAt is the clock reading.
NewSummary(now) ==
  [ GeneratedAt |-> now,
    RepoCounts |-> [Total |-> 0, Public |-> 0, Private |-> 0, Archived |-> 0,
                    Forks |-> 0, Org |-> 0, User |-> 0],
    Size |-> [TotalKB |-> 0, Human |-> <<0, "">>],
    Engagement |-> [TotalStars |-> 0, TotalForks |-> 0, TotalWatchers |-> 0, TotalCommits |-> 0],
    Languages |-> EmptyMap, Topics |-> EmptyMap, Licenses |-> EmptyMap,
    Activity |-> [MostRecentUpdate |-> "", MostRecentPush |-> "", OldestCreated |-> "",
                  OldestUpdate |-> ""],
    Enrichment |-> [ReposWithLastCommit |-> 0, ReposWithStats52W |-> 0, ReposWithLanguages |-> 0,
                    ReposWithContributors |-> 0, ReposStatsPending |-> 0],
    newestUpdate |-> 0, newestPush |-> 0, oldestCreated |-> 0, oldestUpdate |-> 0,
    hasUpdate |-> FALSE, hasPush |-> FALSE, hasCreated |-> FALSE, hasOldUpdate |-> FALSE ]

Bump(cond) == IF cond THEN 1 ELSE 0

RECURSIVE IncKeys(_, _)
IncKeys(m, keys) == IF keys = <<>> THEN m ELSE IncKeys(IncKey(m, Head(keys)), Tail(keys))

\* Bug: the language count takes the empty language too.
FoldLanguage_CountsBlank(m, r) == IncKey(m, r.Language)

\* if r.Language != "" { sum.Languages[r.Language]++ }
FoldLanguage(m, r) == IF r.Language # "" THEN IncKey(m, r.Language) ELSE m

\* if !has || t.After(cur), for a timestamp that parsed.
IsNewer(p, has, cur) == p.ok /\ (~has \/ p.t > cur)

\* Bug: a timestamp is compared before any has been kept.
IsOlder_NoFirst(p, has, cur) == p.ok /\ p.t < cur

\* if !has || t.Before(cur), for a timestamp that parsed.
IsOlder(p, has, cur) == p.ok /\ (~has \/ p.t < cur)

\* Bug: a weekly sequence counts as soon as it is not nil.
HasStats_NotNil(r) == ~r.WeeklyCommits52W.nil

\* if len(r.WeeklyCommits52W) > 0
HasStats(r) == GoLen(r.WeeklyCommits52W) > 0

\* main: one pass of the loop "for _, r := range out".
\* Bug: only the owner type "User" is counted as user-owned.
IsUserOwned_OnlyUser(r) == r.OwnerType = "User"

\* The else branch of: if r.OwnerType == "Organization"
IsUserOwned(r) == r.OwnerType # "Organization"

FoldRecord(sum, r) ==
  LET up == ParseRFC3339(r.UpdatedAt)
      pu == ParseRFC3339(r.PushedAt)
      cr == ParseRFC3339(r.CreatedAt)
      newUp == IsNewer(up, sum.hasUpdate, sum.newestUpdate)
      oldUp == IsOlder(up, sum.hasOldUpdate, sum.oldestUpdate)
      newPu == IsNewer(pu, sum.hasPush, sum.newestPush)
      oldCr == IsOlder(cr, sum.hasCreated, sum.oldestCreated)
  IN [ sum EXCEPT
         !.RepoCounts = [ @ EXCEPT
            !.Total = @ + 1,
            !.Private = @ + Bump(r.Private),
            !.Public = @ + Bump(~r.Private),
            !.Archived = @ + Bump(r.Archived),
            !.Forks = @ + Bump(r.Fork),
            !.Org = @ + Bump(r.OwnerType = "Organization"),
            !.User = @ + Bump(IsUserOwned(r)) ],
         !.Size.TotalKB = @ + r.SizeKB,
         !.Engagement = [ @ EXCEPT
            !.TotalStars = @ + r.Stars,
            !.TotalForks = @ + r.Forks,
            !.TotalWatchers = @ + r.Watchers,
            !.TotalCommits = @ + r.TotalCommits ],
         !.Languages = FoldLanguage(@, r),
         !.Topics = IncKeys(@, r.Topics),
         !.Licenses = IF r.License # "" THEN IncKey(@, r.License) ELSE @,
         !.newestUpdate = IF newUp THEN up.t ELSE @,
         !.hasUpdate = @ \/ newUp,
         !.oldestUpdate = IF oldUp THEN up.t ELSE @,
         !.hasOldUpdate = @ \/ oldUp,
         !.newestPush = IF newPu THEN pu.t ELSE @,
         !.hasPush = @ \/ newPu,
         !.oldestCreated = IF oldCr THEN cr.t ELSE @,
         !.hasCreated = @ \/ oldCr,
         !.Enrichment = [ @ EXCEPT
            !.ReposWithLastCommit = @ + Bump(r.LastCommitAt # ""),
            !.ReposWithStats52W = @ + Bump(HasStats(r)),
            !.ReposWithLanguages = @ + Bump(Cardinality(DOMAIN r.LanguageBreakdown) > 0),
            !.ReposWithContributors = @ + Bump(GoLen(r.TopContributors) > 0),
            !.ReposStatsPending = @ + Bump(r.StatsCachePending) ] ]

\* main: the statements after the loop, up to the marshalling.
FinishSummary(sum) ==
  [ sum EXCEPT
      !.Size.Human = humanSizeFromKB(sum.Size.TotalKB),
      !.Activity = [ @ EXCEPT
         !.MostRecentUpdate = IF sum.hasUpdate THEN FormatUTC(sum.newestUpdate) ELSE @,
         !.MostRecentPush = IF sum.hasPush THEN FormatUTC(sum.newestPush) ELSE @,
         !.OldestCreated = IF sum.hasCreated THEN FormatUTC(sum.oldestCreated) ELSE @,
         !.OldestUpdate = IF sum.hasOldUpdate THEN FormatUTC(sum.oldestUpdate) ELSE @ ] ]

\* json.MarshalIndent(sum): the exported fields.
SummaryJSON(sum) ==
  [ GeneratedAt |-> sum.GeneratedAt, RepoCounts |-> sum.RepoCounts, Size |-> sum.Size,
    Engagement |-> sum.Engagement, Languages |-> sum.Languages, Topics |-> sum.Topics,
    Licenses |-> sum.Licenses, Activity |-> sum.Activity, Enrichment |-> sum.Enrichment ]

\* ------------------------------------------------- the index file's reader
\* encoding/json on a slice: a nil slice is written as null, any other as an
\* array.
JSONSlice(x) == IF x.nil THEN "null" ELSE "array"

\* json.MarshalIndent(out): one record as the JSON object's keys, each with
\* the kind of JSON value written for it; no field is omitted when empty.
MarshalRepo(r) ==
  [ name |-> "string", full_name |-> "string", private |-> "boolean", fork |-> "boolean",
    archived |-> "boolean", language |-> "string", topics |-> "array",
    size_kb |-> "number", size_readable |-> "string",
    stars |-> "number", forks |-> "number", watchers |-> "number",
    created_at |-> "string", updated_at |-> "string", pushed_at |-> "string",
    html_url |-> "string", owner_type |-> "string", license |-> "string",
    last_commit_at |-> "string", last_commit_message |-> "string",
    weekly_commits_52w |-> JSONSlice(r.WeeklyCommits52W),
    weekly_stats_52w |-> JSONSlice(r.WeeklyStats52W),
    language_breakdown |-> IF DOMAIN r.LanguageBreakdown = {} THEN "null" ELSE "object",
    top_contributors |-> JSONSlice(r.TopContributors),
    contributor_count |-> "number", total_commits |-> "number",
    stats_cache_pending |-> "boolean" ]

\* JavaScript's typeof of the value of key k of the object j.
TypeOf(j, k) ==
  IF k \notin DOMAIN j THEN "undefined"
  ELSE IF j[k] \in {"null", "array", "object"} THEN "object" ELSE j[k]

\* app.js validateRepos, the checks of one element: no error is pushed.
validateRepo(j) ==
  /\ \A k \in {"name", "full_name", "size_kb", "size_readable", "updated_at", "html_url"} :
       k \in DOMAIN j
  /\ TypeOf(j, "name") = "string"
  /\ TypeOf(j, "full_name") = "string"
  /\ TypeOf(j, "size_kb") = "number"
  /\ TypeOf(j, "size_readable") = "string"
  /\ TypeOf(j, "updated_at") = "string"
  /\ TypeOf(j, "html_url") = "string"
  /\ ~("weekly_commits_52w" \in DOMAIN j /\ j["weekly_commits_52w"] # "array")

\* ------------------------------------------------------------ the start-up
\* strings.TrimSpace, on a sequence of characters.
IsSpace(c) == c \in {" ", "\t", "\n", "\r"}

RECURSIVE TrimLeft(_)
TrimLeft(s) == IF s # <<>> /\ IsSpace(Head(s)) THEN TrimLeft(Tail(s)) ELSE s

RECURSIVE TrimRight(_)
TrimRight(s) ==
  IF s # <<>> /\ IsSpace(s[Len(s)]) THEN TrimRight(SubSeq(s, 1, Len(s) - 1)) ELSE s

TrimSpace(s) == TrimRight(TrimLeft(s))

\* mustToken: whether it panics.
mustTokenPanics(env) == TrimSpace(env) = <<>>

\* fetchAllAccessibleRepos: perPage.
PerPage == 100

\* The pages the loop of fetchAllAccessibleRepos asks for when n repositories
\* are accessible: those with repositories, then the empty one that ends it.
Pages(n) == (n + PerPage - 1) \div PerPage + 1

\* The listing endpoint answers every page, or fails at page failPage in the
\* way kind.
ListingOK == [failPage |-> 0, kind |-> "ok"]

Listings ==
  {ListingOK} \cup [failPage : 1..Pages(MaxN), kind : {"neterr", "failed", "parseerr"}]

\* fetchAllAccessibleRepos: (the indices listed, error).
fetchAllAccessibleRepos(l, n) ==
  IF l.failPage \in 1..Pages(n)
  THEN [listed |-> {}, err |-> TRUE]
  ELSE [listed |-> 0..(n - 1), err |-> FALSE]

\* ---------------------------------------------------------------- the state
VARIABLES
  cancelled,  \* whether an overall deadline or cancellation has been signalled
  token,      \* the environment's GITHUB_TOKEN, a sequence of characters
  listing,    \* what the listing endpoint answers in this run
  upstream,   \* index -> what that repository's endpoints answer in this run
  workers,    \* main: workers
  repos,      \* main: repos, the listing, index -> ghRepo
  out,        \* main: out, index -> outRepo
  mainPc,     \* where main() stands
  spawned,    \* main: w of the spawning loop
  nextI,      \* main: i of the dispatching loop
  jobs,       \* main: the buffer of the channel jobs
  closed,     \* whether close(jobs) has run
  wgCount,    \* the counter of the WaitGroup
  mu,         \* the worker holding the mutex, 0 when free
  completed,  \* main: completed
  wpc,        \* where each worker goroutine stands
  job,        \* each worker's i, NoJob outside an iteration
  attempt,    \* each worker's attempt in fetchCommitActivity52W
  reg,        \* each worker's read of completed inside completed++
  calls,      \* the fetchers each worker has called in this iteration, in order
  reqs,       \* the commit_activity requests each worker has sent in this iteration
  slept,      \* the sleeps each worker has made in this iteration, in order
  started,    \* index -> how many iterations of a worker's loop began with it
  finished,   \* index -> how many iterations of a worker's loop ended with it
  paced,      \* index -> the milliseconds slept at the end of the iteration on it
  sum,        \* main: sum, <<>> before its declaration
  aggI,       \* main: position of the summary loop
  files       \* the two files written, <<>> before

vars == <<cancelled, token, listing, upstream, workers, repos, out, mainPc, spawned, nextI, jobs, closed, wgCount, mu,
          completed, wpc, job, attempt, reg, calls, reqs, slept, started, finished, paced, sum, aggI,
          files>>

envVars == <<cancelled, token, listing, upstream, workers, repos>>

mainVars == <<mainPc, spawned, nextI, sum, aggI, files>>

chanVars == <<jobs, closed>>

syncVars == <<wgCount, mu, completed, reg>>

localVars == <<attempt, calls, reqs, slept>>

histVars == <<started, finished, paced>>

workerVars == <<wpc, job, localVars, histVars>>

NoJob == -1

\* Goroutine identities; one more than the largest worker count.
Procs == 1..(MaxWorkers + 1)

N == Cardinality(DOMAIN out)

\* A worker inside the body of "for i := range jobs".
JobPcs == {"lastCommit", "activity", "backoff", "languages", "contributors", "lock", "load",
           "store", "pace"}

InJob(w) == wpc[w] \in JobPcs

\* The clock readings time.Now() may give.
Clock == {"t1", "t2"}

\* The state when main() has the listing and has built out from it: the
\* listing is that of the repositories shift, shift + 1, ...
InitWith(upstreams, ws, shifts) ==
  /\ cancelled = FALSE
  /\ token = <<"g", "h", "p">>
  /\ listing = ListingOK
  /\ upstream \in upstreams
  /\ workers \in ws
  /\ \E shift \in shifts : repos = [i \in DOMAIN upstream |-> ghRepo(i + shift)]
  /\ out = [i \in DOMAIN upstream |-> outRepo(repos[i])]
  /\ mainPc = "spawn"
  /\ spawned = 0
  /\ nextI = 0
  /\ jobs = <<>>
  /\ closed = FALSE
  /\ wgCount = 0
  /\ mu = 0
  /\ completed = 0
  /\ wpc = [w \in Procs |-> "unstarted"]
  /\ job = [w \in Procs |-> NoJob]
  /\ attempt = [w \in Procs |-> 0]
  /\ reg = [w \in Procs |-> 0]
  /\ calls = [w \in Procs |-> <<>>]
  /\ reqs = [w \in Procs |-> 0]
  /\ slept = [w \in Procs |-> <<>>]
  /\ started = [i \in DOMAIN upstream |-> 0]
  /\ finished = [i \in DOMAIN upstream |-> 0]
  /\ paced = [i \in DOMAIN upstream |-> 0]
  /\ sum = <<>>
  /\ aggI = 0
  /\ files = <<>>

Upstreams(ns, bs) == UNION { [0..(n - 1) -> bs] : n \in ns }

Init == InitWith(Upstreams(0..MaxN, Behaviours), 1..MaxWorkers, {0})

\* ------------------------------------------------------------------- main()
\* token := mustToken()
MustToken ==
  /\ mainPc = "token"
  /\ mainPc' = IF mustTokenPanics(token) THEN "panicked" ELSE "list"
  /\ UNCHANGED <<envVars, out, spawned, nextI, sum, aggI, files, chanVars, syncVars, workerVars>>

\* Bug: the error of the listing is dropped.
FetchRepos_IgnoresError ==
  /\ mainPc = "list"
  /\ LET res == fetchAllAccessibleRepos(listing, Cardinality(DOMAIN upstream))
     IN /\ repos' = [i \in res.listed |-> ghRepo(i)]
        /\ mainPc' = "build"
  /\ UNCHANGED <<cancelled, token, listing, upstream, workers, out, spawned, nextI, sum, aggI,
                 files, chanVars, syncVars, workerVars>>

\* repos, err := fetchAllAccessibleRepos(client, token); if err != nil { panic(err) }
FetchRepos ==
  /\ mainPc = "list"
  /\ LET res == fetchAllAccessibleRepos(listing, Cardinality(DOMAIN upstream))
     IN IF res.err
        THEN mainPc' = "panicked" /\ UNCHANGED repos
        ELSE repos' = [i \in res.listed |-> ghRepo(i)] /\ mainPc' = "build"
  /\ UNCHANGED <<cancelled, token, listing, upstream, workers, out, spawned, nextI, sum, aggI,
                 files, chanVars, syncVars, workerVars>>

\* The base output objects: out gets one record for each listed repository.
BuildOut ==
  /\ mainPc = "build"
  /\ out' = [i \in DOMAIN repos |-> outRepo(repos[i])]
  /\ mainPc' = "spawn"
  /\ UNCHANGED <<envVars, spawned, nextI, sum, aggI, files, chanVars, syncVars, workerVars>>

\* Bug: the spawning loop runs once too often.
SpawnMore_OneTooMany(w) == w <= workers

\* for w := 0; w < workers; w++
SpawnMore(w) == w < workers

\* wg.Add(1); go func() {...}()
Spawn ==
  /\ mainPc = "spawn"
  /\ IF SpawnMore(spawned)
     THEN /\ wgCount' = wgCount + 1
          /\ wpc' = [wpc EXCEPT ![spawned + 1] = "recv"]
          /\ spawned' = spawned + 1
          /\ UNCHANGED mainPc
     ELSE /\ mainPc' = "dispatch"
          /\ UNCHANGED <<wgCount, wpc, spawned>>
  /\ UNCHANGED <<envVars, out, nextI, sum, aggI, files, chanVars, mu, completed, reg, job,
                 localVars, histVars>>

\* jobs := make(chan int, len(out))
\* Bug: the buffer holds one index fewer than there are records.
ChanCap_OneShort == N - 1

\* jobs := make(chan int, len(out))
ChanCap == N

\* Bug: the dispatching loop stops one index early.
SendMore_OneTooFew(i) == i < N - 1

\* for i := range out
SendMore(i) == i < N

\* jobs <- i, which waits while the buffer is full.
Dispatch ==
  /\ mainPc = "dispatch"
  /\ IF SendMore(nextI)
     THEN /\ Len(jobs) < ChanCap
          /\ jobs' = Append(jobs, nextI)
          /\ nextI' = nextI + 1
          /\ UNCHANGED mainPc
     ELSE /\ mainPc' = "close"
          /\ UNCHANGED <<jobs, nextI>>
  /\ UNCHANGED <<envVars, out, spawned, sum, aggI, files, closed, syncVars, workerVars>>

\* Bug: the channel is never closed.
Close_Forgotten ==
  /\ mainPc = "close"
  /\ mainPc' = "wait"
  /\ UNCHANGED <<envVars, out, spawned, nextI, sum, aggI, files, chanVars, syncVars, workerVars>>

\* close(jobs)
Close ==
  /\ mainPc = "close"
  /\ closed' = TRUE
  /\ mainPc' = "wait"
  /\ UNCHANGED <<envVars, out, spawned, nextI, sum, aggI, files, jobs, syncVars, workerVars>>

\* Bug: main does not wait for the workers.
WaitReturns_NoWait == TRUE

\* Bug: main waits for the channel to drain, not for the workers.
WaitReturns_Drained == jobs = <<>>

\* wg.Wait() returns when the counter is zero.
WaitReturns == wgCount = 0

Wait ==
  /\ mainPc = "wait"
  /\ WaitReturns
  /\ mainPc' = "summary"
  /\ UNCHANGED <<envVars, out, spawned, nextI, sum, aggI, files, chanVars, syncVars, workerVars>>

\* var sum summary; sum.GeneratedAt = ...; the maps; the locals.
DeclareSummary ==
  /\ mainPc = "summary"
  /\ \E now \in Clock : sum' = <<NewSummary(now)>>
  /\ aggI' = 0
  /\ mainPc' = "fold"
  /\ UNCHANGED <<envVars, out, spawned, nextI, files, chanVars, syncVars, workerVars>>

\* for _, r := range out {...}, one record a step, then the statements after it.
Fold ==
  /\ mainPc = "fold"
  /\ IF aggI < N
     THEN /\ sum' = <<FoldRecord(sum[1], out[aggI])>>
          /\ aggI' = aggI + 1
          /\ UNCHANGED mainPc
     ELSE /\ sum' = <<FinishSummary(sum[1])>>
          /\ mainPc' = "write"
          /\ UNCHANGED aggI
  /\ UNCHANGED <<envVars, out, spawned, nextI, files, chanVars, syncVars, workerVars>>

\* The two json.MarshalIndent and os.WriteFile calls.
WriteFiles ==
  /\ mainPc = "write"
  /\ files' = <<[index |-> out, summary |-> SummaryJSON(sum[1])]>>
  /\ mainPc' = "done"
  /\ UNCHANGED <<envVars, out, spawned, nextI, sum, aggI, chanVars, syncVars, workerVars>>

\* --------------------------------------------------------------- the workers
\* Bug: a receive leaves the value in the buffer.
AfterRecv_Kept(q) == q

\* The buffer after a receive took its head.
AfterRecv(q) == Tail(q)

\* for i := range jobs: take the head of the buffer; leave the loop (and run
\* the deferred wg.Done()) when the channel is closed and drained; wait
\* otherwise.  full := out[i].FullName.
Recv(w) ==
  /\ wpc[w] = "recv"
  /\ IF jobs # <<>>
     THEN /\ job' = [job EXCEPT ![w] = Head(jobs)]
          /\ jobs' = AfterRecv(jobs)
          /\ started' = [started EXCEPT ![Head(jobs)] = @ + 1]
          /\ wpc' = [wpc EXCEPT ![w] = "lastCommit"]
          /\ UNCHANGED wgCount
     ELSE /\ closed
          /\ wpc' = [wpc EXCEPT ![w] = "exited"]
          /\ wgCount' = wgCount - 1
          /\ UNCHANGED <<job, jobs, started>>
  /\ UNCHANGED <<envVars, out, mainVars, closed, mu, completed, reg, localVars, finished, paced>>

\* Bug: an error of the first fetch ends the iteration.
LastCommit_AbortsOnError(w) ==
  /\ wpc[w] = "lastCommit"
  /\ LET i == job[w]
         res == fetchLastCommit(upstream[i], out[i].FullName)
     IN /\ out' = [out EXCEPT ![i] = StoreLastCommit(@, res)]
        /\ wpc' = [wpc EXCEPT ![w] = IF res.err THEN "pace" ELSE "activity"]
  /\ calls' = [calls EXCEPT ![w] = Append(@, "fetchLastCommit")]
  /\ UNCHANGED <<envVars, mainVars, chanVars, syncVars, job, attempt, reqs, slept, histVars>>

\* 1) fetchLastCommit and the stores of its results.
LastCommit(w) ==
  /\ wpc[w] = "lastCommit"
  /\ LET i == job[w]
         res == fetchLastCommit(upstream[i], out[i].FullName)
     IN out' = [out EXCEPT ![i] = StoreLastCommit(@, res)]
  /\ calls' = [calls EXCEPT ![w] = Append(@, "fetchLastCommit")]
  /\ wpc' = [wpc EXCEPT ![w] = "activity"]
  /\ UNCHANGED <<envVars, mainVars, chanVars, syncVars, job, attempt, reqs, slept, histVars>>

\* 2) fetchCommitActivity52W: one request of its loop.  The function either
\* returns, and the worker stores its results, or is to sleep.
Activity(w) ==
  /\ wpc[w] = "activity"
  /\ LET i == job[w]
         res == ActivityPass(upstream[i].activity[attempt[w]], attempt[w], out[i].FullName)
     IN IF res.ret
        THEN /\ out' = [out EXCEPT ![i] = StoreActivity(@, res)]
             /\ wpc' = [wpc EXCEPT ![w] = "languages"]
        ELSE /\ wpc' = [wpc EXCEPT ![w] = "backoff"]
             /\ UNCHANGED out
  /\ reqs' = [reqs EXCEPT ![w] = @ + 1]
  /\ calls' = [calls EXCEPT ![w] = IF attempt[w] = 0 THEN Append(@, "fetchCommitActivity52W") ELSE @]
  /\ UNCHANGED <<envVars, mainVars, chanVars, syncVars, job, attempt, slept, histVars>>

\* Bug: every sleep takes the first entry of the table.
Backoff_FirstEntry(w) ==
  /\ wpc[w] = "backoff"
  /\ slept' = [slept EXCEPT ![w] = Append(@, backoffs[1])]
  /\ attempt' = [attempt EXCEPT ![w] = @ + 1]
  /\ wpc' = [wpc EXCEPT ![w] = "activity"]
  /\ UNCHANGED <<envVars, out, mainVars, chanVars, syncVars, job, calls, reqs, histVars>>

\* time.Sleep(backoffs[attempt]); continue
Backoff(w) ==
  /\ wpc[w] = "backoff"
  /\ slept' = [slept EXCEPT ![w] = Append(@, backoffs[attempt[w] + 1])]
  /\ attempt' = [attempt EXCEPT ![w] = @ + 1]
  /\ wpc' = [wpc EXCEPT ![w] = "activity"]
  /\ UNCHANGED <<envVars, out, mainVars, chanVars, syncVars, job, calls, reqs, histVars>>

\* Bug: an empty language map ends the iteration.
LanguagesStep_StopsOnEmpty(w) ==
  /\ wpc[w] = "languages"
  /\ LET i == job[w]
         res == fetchLanguages(upstream[i], out[i].FullName)
     IN /\ out' = [out EXCEPT ![i] = StoreLanguages(@, res)]
        /\ wpc' = [wpc EXCEPT ![w] = IF ~res.err /\ Cardinality(DOMAIN res.langs) = 0
                                      THEN "pace" ELSE "contributors"]
  /\ calls' = [calls EXCEPT ![w] = Append(@, "fetchLanguages")]
  /\ UNCHANGED <<envVars, mainVars, chanVars, syncVars, job, attempt, reqs, slept, histVars>>

\* 3) fetchLanguages and the store of its result.
LanguagesStep(w) ==
  /\ wpc[w] = "languages"
  /\ LET i == job[w]
         res == fetchLanguages(upstream[i], out[i].FullName)
     IN out' = [out EXCEPT ![i] = StoreLanguages(@, res)]
  /\ calls' = [calls EXCEPT ![w] = Append(@, "fetchLanguages")]
  /\ wpc' = [wpc EXCEPT ![w] = "contributors"]
  /\ UNCHANGED <<envVars, mainVars, chanVars, syncVars, job, attempt, reqs, slept, histVars>>

\* 4) fetchContributors and the stores of its results.
ContributorsStep(w) ==
  /\ wpc[w] = "contributors"
  /\ LET i == job[w]
         res == fetchContributors(upstream[i], out[i].FullName)
     IN out' = [out EXCEPT ![i] = StoreContributors(@, res)]
  /\ calls' = [calls EXCEPT ![w] = Append(@, "fetchContributors")]
  /\ wpc' = [wpc EXCEPT ![w] = "lock"]
  /\ UNCHANGED <<envVars, mainVars, chanVars, syncVars, job, attempt, reqs, slept, histVars>>

\* Bug: the lock is taken whether or not another worker holds it.
Lock_NoExclusion(w) ==
  /\ wpc[w] = "lock"
  /\ mu' = w
  /\ wpc' = [wpc EXCEPT ![w] = "load"]
  /\ UNCHANGED <<envVars, out, mainVars, chanVars, wgCount, completed, reg, job, localVars,
                 histVars>>

\* mu.Lock()
Lock(w) ==
  /\ wpc[w] = "lock"
  /\ mu = 0
  /\ mu' = w
  /\ wpc' = [wpc EXCEPT ![w] = "load"]
  /\ UNCHANGED <<envVars, out, mainVars, chanVars, wgCount, completed, reg, job, localVars,
                 histVars>>

\* completed++: the read,
Load(w) ==
  /\ wpc[w] = "load"
  /\ reg' = [reg EXCEPT ![w] = completed]
  /\ wpc' = [wpc EXCEPT ![w] = "store"]
  /\ UNCHANGED <<envVars, out, mainVars, chanVars, wgCount, mu, completed, job, localVars,
                 histVars>>

\* Bug: the lock is not released before the sleep at the end of the iteration.
StoreUnlock_KeepsLock(w) ==
  /\ wpc[w] = "store"
  /\ completed' = reg[w] + 1
  /\ mu' = mu
  /\ reg' = [reg EXCEPT ![w] = 0]
  /\ wpc' = [wpc EXCEPT ![w] = "pace"]
  /\ UNCHANGED <<envVars, out, mainVars, chanVars, wgCount, job, localVars, histVars>>

\* the write, the progress line and mu.Unlock().
StoreUnlock(w) ==
  /\ wpc[w] = "store"
  /\ completed' = reg[w] + 1
  /\ mu' = 0
  /\ reg' = [reg EXCEPT ![w] = 0]
  /\ wpc' = [wpc EXCEPT ![w] = "pace"]
  /\ UNCHANGED <<envVars, out, mainVars, chanVars, wgCount, job, localVars, histVars>>

\* Bug: the iteration ends without the sleep.
Pace_NoSleep(w) ==
  /\ wpc[w] = "pace"
  /\ wpc' = [wpc EXCEPT ![w] = "recv"]
  /\ finished' = [finished EXCEPT ![job[w]] = @ + 1]
  /\ UNCHANGED paced
  /\ job' = [job EXCEPT ![w] = NoJob]
  /\ attempt' = [attempt EXCEPT ![w] = 0]
  /\ calls' = [calls EXCEPT ![w] = <<>>]
  /\ reqs' = [reqs EXCEPT ![w] = 0]
  /\ slept' = [slept EXCEPT ![w] = <<>>]
  /\ UNCHANGED <<envVars, out, mainVars, chanVars, syncVars, started>>

\* time.Sleep(100 * time.Millisecond), the end of the iteration.
Pace(w) ==
  /\ wpc[w] = "pace"
  /\ wpc' = [wpc EXCEPT ![w] = "recv"]
  /\ finished' = [finished EXCEPT ![job[w]] = @ + 1]
  /\ paced' = [paced EXCEPT ![job[w]] = PaceMs]
  /\ job' = [job EXCEPT ![w] = NoJob]
  /\ attempt' = [attempt EXCEPT ![w] = 0]
  /\ calls' = [calls EXCEPT ![w] = <<>>]
  /\ reqs' = [reqs EXCEPT ![w] = 0]
  /\ slept' = [slept EXCEPT ![w] = <<>>]
  /\ UNCHANGED <<envVars, out, mainVars, chanVars, syncVars, started>>

Worker(w) ==
  \/ Recv(w)
  \/ LastCommit(w)
  \/ Activity(w)
  \/ Backoff(w)
  \/ LanguagesStep(w)
  \/ ContributorsStep(w)
  \/ Lock(w)
  \/ Load(w)
  \/ StoreUnlock(w)
  \/ Pace(w)

Main == Spawn \/ Dispatch \/ Close \/ Wait \/ DeclareSummary \/ Fold \/ WriteFiles

Next == Main \/ \E w \in Procs : Worker(w)

Spec == Init /\ [][Next]_vars

\* ------------------------------------------------------ other specifications
\* One repository, one worker, every behaviour of the four endpoints.
InitJob == InitWith(Upstreams({1}, AllBehaviours), {1}, {0})

SpecJob == InitJob /\ [][Next]_vars

\* One worker, up to MaxN repositories, the listing starting anywhere in the
\* table of base attributes.
InitAgg == InitWith(Upstreams(0..MaxN, Behaviours), {1}, 0..(Len(Languages) - 1))

SpecAgg == InitAgg /\ [][Next]_vars

\* Three repositories: the activity endpoint of the first always answers
\* 202, that of the second is ready at the second request, the commits
\* endpoint of the third returns no commit; every other request succeeds.
E2EUpstream ==
  [i \in 0..2 |->
     [ commits |-> IF i = 2 THEN "zero" ELSE "ok",
       activity |-> IF i = 0 THEN Script(NumAttempts, "ready")
                    ELSE IF i = 1 THEN Script(1, "ready") ELSE Script(0, "ready"),
       langs |-> "ok", contribs |-> "ok" ]]

InitE2E == InitWith({E2EUpstream}, 1..MaxWorkers, {0})

SpecE2E == InitE2E /\ [][Next]_vars

\* The scheduler runs some goroutine that can run: no run stops while a step
\* is possible.  Every request, sleep and lock is a step.
\* The behaviours with the longest job (five requests, four sleeps) and with
\* failing fetches.
LiveBehaviours ==
  { b \in Behaviours : b.commits \in {"zero", "failed"} }

InitLive == InitWith(Upstreams(0..MaxN, LiveBehaviours), 1..MaxWorkers, {0})

FairSpec == InitLive /\ [][Next]_vars /\ WF_vars(Next)

\* Two repositories, one worker, commit messages of every length around the
\* cap.
MsgBehaviours ==
  [ commits : {"ok", "blank", "under", "cap", "long", "longer"},
    activity : {Script(0, "ready"), Script(1, "ready")},
    langs : {"ok"},
    contribs : {"ok"} ]

InitMsg == InitWith(Upstreams({2}, MsgBehaviours), {1}, {0})

SpecMsg == InitMsg /\ [][Next]_vars

\* One repository, one worker, every kind of answer of the contributors
\* endpoint.
ContribBehaviours ==
  [ commits : {"ok"},
    activity : {Script(0, "ready"), Script(1, "ready")},
    langs : {"ok", "empty"},
    contribs : {"ok", "empty", "full", "over", "unsorted", "failed"} ]

InitContrib == InitWith(Upstreams({1}, ContribBehaviours), {1}, {0})

SpecContrib == InitContrib /\ [][Next]_vars

\* One worker more than MaxWorkers and as many repositories, each answering
\* one 202 before its activity data.
PoolBehaviours ==
  { [commits |-> "ok", activity |-> Script(1, "ready"), langs |-> "ok", contribs |-> "ok"] }

InitPool == InitWith(Upstreams({MaxWorkers + 1}, PoolBehaviours), {MaxWorkers + 1}, {0})

SpecPool == InitPool /\ [][Next]_vars

\* main() from its first statement: any token, any answer of the listing,
\* one worker.
Tokens == {<<>>, <<" ">>, <<"\t", "\n">>, <<"g", "h", "p">>, <<" ", "g", "h", "p", "\n">>}

InitStart ==
  /\ cancelled = FALSE
  /\ token \in Tokens
  /\ listing \in Listings
  /\ upstream \in Upstreams(0..MaxN, Behaviours)
  /\ workers = 1
  /\ repos = <<>>
  /\ out = <<>>
  /\ mainPc = "token"
  /\ spawned = 0
  /\ nextI = 0
  /\ jobs = <<>>
  /\ closed = FALSE
  /\ wgCount = 0
  /\ mu = 0
  /\ completed = 0
  /\ wpc = [w \in Procs |-> "unstarted"]
  /\ job = [w \in Procs |-> NoJob]
  /\ attempt = [w \in Procs |-> 0]
  /\ reg = [w \in Procs |-> 0]
  /\ calls = [w \in Procs |-> <<>>]
  /\ reqs = [w \in Procs |-> 0]
  /\ slept = [w \in Procs |-> <<>>]
  /\ started = [i \in DOMAIN upstream |-> 0]
  /\ finished = [i \in DOMAIN upstream |-> 0]
  /\ paced = [i \in DOMAIN upstream |-> 0]
  /\ sum = <<>>
  /\ aggI = 0
  /\ files = <<>>

NextStart == MustToken \/ FetchRepos \/ BuildOut \/ Next

SpecStart == InitStart /\ [][NextStart]_vars

\* An overall deadline or cancellation is signalled while the records are
\* being enriched.  Nothing in main() or in the workers reads such a signal:
\* the rest of the state is as it was.
Cancel ==
  /\ mainPc \in {"dispatch", "close", "wait"}
  /\ ~cancelled
  /\ cancelled' = TRUE
  /\ UNCHANGED <<token, listing, upstream, workers, repos, out, mainVars, chanVars, syncVars,
                 workerVars>>

NextCancel == Next \/ Cancel

SpecCancel == Init /\ [][NextCancel]_vars

\* ------------------------------------------------------------------ claims
PastBarrier == mainPc \in {"summary", "fold", "write", "done"}

Busy == {w \in Procs : InJob(w)}

\* C1: each index of out starts at most one iteration of a worker's loop at
\* any time, and once main is past wg.Wait() each index 0..N-1 has started
\* exactly one iteration and that iteration has ended.
C1_EveryIndexExactlyOnce ==
  /\ \A i \in DOMAIN out : started[i] <= 1 /\ finished[i] <= started[i]
  /\ PastBarrier => \A i \in DOMAIN out : started[i] = 1 /\ finished[i] = 1

C1_Witness == mainPc = "summary" /\ N >= 2 /\ completed = N

\* C2: in every state the number of workers inside a job is at most workers.
C2_AtMostWorkersJobs == Cardinality(Busy) <= workers

\* More repositories than workers, every worker in a job, one job waiting.
C2_Witness == N > workers /\ Cardinality(Busy) = workers /\ jobs # <<>>

\* C3: the summary does not exist and main is not past wg.Wait() until every
\* index has finished its job and every worker has left its loop; from then
\* on no record changes; and sum changes only in steps of main's summary code,
\* which change no worker's state and no record.
C3_StateOK ==
  (sum # <<>> \/ PastBarrier) =>
     /\ \A i \in DOMAIN out : finished[i] = 1
     /\ \A w \in Procs : wpc[w] \in {"unstarted", "exited"}

C3_StepOK ==
  /\ PastBarrier => out' = out
  /\ sum' # sum => /\ mainPc \in {"summary", "fold"}
                   /\ workerVars' = workerVars
                   /\ out' = out

C3_AggregationAfterBarrier == [](C3_StateOK) /\ [][C3_StepOK]_vars

\* Half way through the summary loop of a two-record run.
C3_Witness == mainPc = "fold" /\ aggI = 1 /\ N = 2

\* C4: two workers inside a job never hold the same index, and a record
\* changes only in a step of the one worker whose current job is its index.
C4_StateOK ==
  \A w1, w2 \in Procs : (w1 # w2 /\ InJob(w1) /\ InJob(w2)) => job[w1] # job[w2]

C4_StepOK ==
  \A i \in DOMAIN out :
    out'[i] # out[i] =>
      \E w \in Procs : /\ InJob(w) /\ job[w] = i
                       /\ wpc'[w] # wpc[w]
                       /\ \A v \in Procs \ {w} : wpc'[v] = wpc[v] /\ job[v] # i

C4_OneWriterPerRecord == [](C4_StateOK) /\ [][C4_StepOK]_vars

\* Two workers have each written part of their own record.
C4_Witness ==
  \E w1, w2 \in Procs : /\ wpc[w1] = "languages" /\ wpc[w2] = "contributors"
                        /\ out[job[w1]].LastCommitAt # "" /\ out[job[w2]].LastCommitAt # ""

\* C5: under the scheduler's fairness every run ends with main at its end,
\* the two files written and every started worker out of its loop.
Terminated ==
  /\ mainPc = "done"
  /\ files # <<>>
  /\ \A w \in Procs : wpc[w] = IF w <= workers THEN "exited" ELSE "unstarted"

C5_RunTerminates == <>Terminated

\* A finished run in which one record ended pending and a fetch of another failed.
C5_Witness ==
  /\ Terminated
  /\ \E i, j \in DOMAIN out : /\ out[i].StatsCachePending
                              /\ Failed(upstream[j].commits) /\ Failed(upstream[j].langs)

\* C6: the summary written is the one a single pass over the indices in
\* order computes from the listing and the endpoints' answers alone, the
\* generation time aside: it depends on neither the worker count nor the
\* interleaving.
RECURSIVE RefActivity(_, _, _)
RefActivity(b, a, full) ==
  LET res == ActivityPass(b.activity[a], a, full)
  IN IF res.ret THEN res ELSE RefActivity(b, a + 1, full)

RefRecord(i) ==
  LET b == upstream[i]
      full == repos[i].FullName
      r1 == StoreLastCommit(outRepo(repos[i]), fetchLastCommit(b, full))
      r2 == StoreActivity(r1, RefActivity(b, 0, full))
      r3 == StoreLanguages(r2, fetchLanguages(b, full))
  IN StoreContributors(r3, fetchContributors(b, full))

RECURSIVE RefFold(_, _)
RefFold(acc, i) == IF i >= N THEN acc ELSE RefFold(FoldRecord(acc, RefRecord(i)), i + 1)

RefSummary == SummaryJSON(FinishSummary(RefFold(NewSummary(""), 0)))

Totals(s) == [s EXCEPT !.GeneratedAt = ""]

C6_SummaryDeterministic ==
  mainPc = "done" => Totals(files[1].summary) = Totals(RefSummary)

\* Two workers finished two records of different outcomes, at the later clock reading.
C6_Witness ==
  /\ mainPc = "done" /\ workers >= 2 /\ N >= 2
  /\ files[1].summary.GeneratedAt = "t2"
  /\ files[1].summary.Enrichment.ReposStatsPending = 1
  /\ files[1].summary.Enrichment.ReposWithStats52W = 1

\* C7: once the summary loop is over, TotalCommits of the summary is the sum
\* of TotalCommits over the records, and Languages holds exactly the
\* non-empty languages of the records, each with the number of records of
\* that language.
RECURSIVE SumTotalCommits(_)
SumTotalCommits(i) == IF i >= N THEN 0 ELSE out[i].TotalCommits + SumTotalCommits(i + 1)

C7_CommitSumAndLanguageCounts ==
  mainPc \in {"write", "done"} =>
    /\ sum[1].Engagement.TotalCommits = SumTotalCommits(0)
    /\ DOMAIN sum[1].Languages = {out[i].Language : i \in DOMAIN out} \ {""}
    /\ \A k \in DOMAIN sum[1].Languages :
         sum[1].Languages[k] = Cardinality({i \in DOMAIN out : out[i].Language = k})

\* Two records, one without a language, and commits counted.
C7_Witness ==
  /\ mainPc = "done" /\ N = 2
  /\ \E i, j \in DOMAIN out : i # j /\ out[i].Language = "" /\ out[j].TotalCommits > 0
  /\ sum[1].Engagement.TotalCommits > 0

\* C8: once the activity fetch of a record is over, if every one of the
\* NumAttempts requests was answered 202 the record is pending with empty
\* weekly sequences, and if some request was answered with the data (those
\* before it with 202) the record is not pending and both weekly sequences
\* have the window's length.
AllComputing(i) == \A a \in 0..(NumAttempts - 1) : upstream[i].activity[a] = "computing"

ReadyAt(i, a) ==
  /\ upstream[i].activity[a] = "ready"
  /\ \A a2 \in 0..(a - 1) : upstream[i].activity[a2] = "computing"

ActivityOver(i) ==
  \/ finished[i] = 1
  \/ \E w \in Procs : job[w] = i /\ wpc[w] \in {"languages", "contributors", "lock", "load", "store", "pace"}

C8_PendingOrReady ==
  \A i \in DOMAIN out :
    ActivityOver(i) =>
      /\ AllComputing(i) => /\ out[i].StatsCachePending
                            /\ GoLen(out[i].WeeklyCommits52W) = 0
                            /\ GoLen(out[i].WeeklyStats52W) = 0
      /\ (\E a \in 0..(NumAttempts - 1) : ReadyAt(i, a)) =>
             /\ ~out[i].StatsCachePending
             /\ GoLen(out[i].WeeklyCommits52W) = WindowLen
             /\ GoLen(out[i].WeeklyStats52W) = WindowLen

\* The data came at the last request, after a 202 at every earlier one.
C8_Witness ==
  /\ ReadyAt(0, NumAttempts - 1) /\ finished[0] = 1
  /\ ~out[0].StatsCachePending /\ GoLen(out[0].WeeklyCommits52W) = WindowLen

\* C9: in the three-repository scenario every finished run has the first
\* record pending with empty weekly data, the second not pending with both
\* weekly sequences of the window's length, the third with empty last-commit
\* fields, and a summary with ReposStatsPending = 1 and ReposWithLastCommit = 2.
C9_EndToEnd ==
  mainPc = "done" =>
    LET rec == files[1].index
        s == files[1].summary
    IN /\ rec[0].StatsCachePending
       /\ GoLen(rec[0].WeeklyCommits52W) = 0 /\ GoLen(rec[0].WeeklyStats52W) = 0
       /\ ~rec[1].StatsCachePending
       /\ GoLen(rec[1].WeeklyCommits52W) = WindowLen /\ GoLen(rec[1].WeeklyStats52W) = WindowLen
       /\ rec[2].LastCommitAt = "" /\ rec[2].LastCommitMessage = <<>>
       /\ s.Enrichment.ReposStatsPending = 1
       /\ s.Enrichment.ReposWithLastCommit = 2

C9_Witness == mainPc = "done" /\ workers >= 2 /\ N = 3 /\ completed = 3

\* C10: in every iteration the fetchers are called in the order last commit,
\* commit activity, languages, contributors; a worker reaches the progress
\* counter, and an iteration ends, only after all four calls.
FetcherOrder == <<"fetchLastCommit", "fetchCommitActivity52W", "fetchLanguages", "fetchContributors">>

C10_StateOK ==
  \A w \in Procs :
    /\ Len(calls[w]) <= Len(FetcherOrder)
    /\ calls[w] = SubSeq(FetcherOrder, 1, Len(calls[w]))
    /\ wpc[w] \in {"lock", "load", "store", "pace"} => calls[w] = FetcherOrder

C10_StepOK ==
  \A i \in DOMAIN out :
    finished'[i] # finished[i] => \E w \in Procs : job[w] = i /\ calls[w] = FetcherOrder

C10_AllFourInOrder == [](C10_StateOK) /\ [][C10_StepOK]_vars

\* All four fetches of a job failed and the worker is at the job's end.
C10_Witness ==
  \E w \in Procs :
    /\ wpc[w] = "pace" /\ calls[w] = FetcherOrder
    /\ Failed(upstream[job[w]].commits) /\ Failed(upstream[job[w]].activity[0])
    /\ Failed(upstream[job[w]].langs) /\ Failed(upstream[job[w]].contribs)

\* C11: a fetch that fails (transport error, non-success status or parse
\* error) changes no record at all, so the fields the other fetches of the
\* job wrote, the base attributes and every other record stay as they were;
\* and once the failed fetch of a job is over its own fields of the record
\* hold their zero values.
FailingCall(w) ==
  /\ InJob(w)
  /\ LET b == upstream[job[w]]
     IN \/ wpc[w] = "lastCommit" /\ Failed(b.commits)
        \/ wpc[w] = "activity" /\ Failed(b.activity[attempt[w]])
        \/ wpc[w] = "languages" /\ Failed(b.langs)
        \/ wpc[w] = "contributors" /\ Failed(b.contribs)

\* The job of index i is past the program points before.
After(i, before) ==
  \/ finished[i] = 1
  \/ \E w \in Procs : job[w] = i /\ InJob(w) /\ wpc[w] \notin before

ActivityFailed(i) ==
  \E a \in 0..(NumAttempts - 1) :
    /\ Failed(upstream[i].activity[a])
    /\ \A a2 \in 0..(a - 1) : upstream[i].activity[a2] = "computing"

C11_StateOK ==
  \A i \in DOMAIN out :
    /\ (Failed(upstream[i].commits) /\ After(i, {"lastCommit"})) =>
          out[i].LastCommitAt = "" /\ out[i].LastCommitMessage = <<>>
    /\ (ActivityFailed(i) /\ After(i, {"lastCommit", "activity", "backoff"})) =>
          /\ out[i].WeeklyStats52W = NilSlice /\ out[i].WeeklyCommits52W = NilSlice
          /\ out[i].TotalCommits = 0 /\ ~out[i].StatsCachePending
    /\ (Failed(upstream[i].langs)
          /\ After(i, {"lastCommit", "activity", "backoff", "languages"})) =>
          out[i].LanguageBreakdown = EmptyMap
    /\ (Failed(upstream[i].contribs)
          /\ After(i, {"lastCommit", "activity", "backoff", "languages", "contributors"})) =>
          out[i].TopContributors = NilSlice /\ out[i].ContributorCount = 0

C11_StepOK ==
  \A w \in Procs : (FailingCall(w) /\ wpc'[w] # wpc[w]) => out' = out

C11_FailedCallChangesNothing == [](C11_StateOK) /\ [][C11_StepOK]_vars

\* The activity fetch of a job failed after its last-commit fetch had stored
\* its results, while another record is already enriched.
C11_Witness ==
  \E w \in Procs : \E j \in DOMAIN out :
    /\ wpc[w] = "languages" /\ j # job[w]
    /\ ActivityFailed(job[w]) /\ out[job[w]].LastCommitAt # ""
    /\ out[job[w]].WeeklyCommits52W = NilSlice
    /\ finished[j] = 1 /\ out[j].LastCommitAt # ""

\* C12: in the retry loop of the activity fetch a 202 answer to a request
\* that is not the last allowed one is followed by one sleep, of the table's
\* next entry, and then by one more request; the sleeps of a job are the
\* table 700, 1200, 2000, 3000 from its start, in order; a job sends at most
\* five requests and sleeps at most four times, and a 202 answer to the
\* fifth request is followed by no sleep.
C12_StateOK ==
  \A w \in Procs :
    /\ backoffs = <<700, 1200, 2000, 3000>>
    /\ reqs[w] <= 5 /\ Len(slept[w]) <= 4
    /\ slept[w] = SubSeq(backoffs, 1, Len(slept[w]))
    /\ wpc[w] = "backoff" =>
          /\ reqs[w] = Len(slept[w]) + 1 /\ reqs[w] < 5
          /\ upstream[job[w]].activity[attempt[w]] = "computing"
    /\ wpc[w] = "activity" => reqs[w] = Len(slept[w])
    /\ (InJob(w) /\ wpc[w] \notin {"lastCommit", "activity", "backoff"}) =>
          reqs[w] = Len(slept[w]) + 1

C12_StepOK ==
  \A w \in Procs :
    /\ (wpc[w] = "activity" /\ wpc'[w] # wpc[w]) =>
          /\ reqs'[w] = reqs[w] + 1 /\ slept'[w] = slept[w]
          /\ (upstream[job[w]].activity[attempt[w]] = "computing" /\ reqs[w] < 4)
                => wpc'[w] = "backoff"
          /\ (upstream[job[w]].activity[attempt[w]] = "computing" /\ reqs[w] = 4)
                => wpc'[w] = "languages"
    /\ (wpc[w] = "backoff" /\ wpc'[w] # wpc[w]) =>
          /\ slept'[w] = Append(slept[w], backoffs[reqs[w]])
          /\ reqs'[w] = reqs[w] /\ wpc'[w] = "activity"
    /\ (wpc[w] \notin {"activity", "backoff", "pace"}) =>
          reqs'[w] = reqs[w] /\ slept'[w] = slept[w]

C12_BackoffTable == [](C12_StateOK) /\ [][C12_StepOK]_vars

\* Five requests all answered 202: four sleeps, the whole table, and the
\* fetch is over.
C12_Witness ==
  \E w \in Procs :
    /\ wpc[w] = "languages" /\ reqs[w] = 5 /\ slept[w] = <<700, 1200, 2000, 3000>>
    /\ out[job[w]].StatsCachePending

\* C13: when the activity endpoint answers a request with a failed status
\* (not 2xx and not 202), the fetch returns at that request: the job sends
\* no further activity request and sleeps no more, the step changes no
\* record, and the record's weekly fields stay empty and its pending flag
\* false.
StatusFailedAt(i, a) ==
  /\ upstream[i].activity[a] = "failed"
  /\ \A a2 \in 0..(a - 1) : upstream[i].activity[a2] = "computing"

C13_StateOK ==
  \A i \in DOMAIN out : \A a \in 0..(NumAttempts - 1) :
    StatusFailedAt(i, a) =>
      /\ \A w \in Procs :
           (job[w] = i /\ wpc[w] \in {"languages", "contributors", "lock", "load", "store", "pace"})
             => reqs[w] = a + 1 /\ Len(slept[w]) = a
      /\ \A w \in Procs : job[w] = i => reqs[w] <= a + 1 /\ Len(slept[w]) <= a
      /\ GoLen(out[i].WeeklyCommits52W) = 0 /\ GoLen(out[i].WeeklyStats52W) = 0
      /\ out[i].TotalCommits = 0 /\ ~out[i].StatsCachePending

C13_StepOK ==
  \A w \in Procs :
    (wpc[w] = "activity" /\ upstream[job[w]].activity[attempt[w]] = "failed"
       /\ wpc'[w] # wpc[w]) =>
      wpc'[w] = "languages" /\ slept'[w] = slept[w] /\ out' = out

C13_FailedStatusEndsRetry == [](C13_StateOK) /\ [][C13_StepOK]_vars

\* The third request was answered with a failed status after two 202s, and
\* the job has gone on to its later fetches.
C13_Witness ==
  \E w \in Procs :
    /\ wpc[w] = "lock" /\ StatusFailedAt(job[w], 2)
    /\ reqs[w] = 3 /\ slept[w] = <<700, 1200>>
    /\ out[job[w]].LastCommitAt # "" /\ GoLen(out[job[w]].TopContributors) > 0

\* C14: once an overall deadline or cancellation has been signalled during
\* enrichment no further index is sent to the workers, a worker inside a job
\* leaves its loop when the fetch it is in returns and no worker takes a new
\* job, the records of jobs not yet started keep their zero enrichment
\* fields, and the summary written is the fold of the records as they are
\* after wg.Wait().
RECURSIVE FoldOut(_, _)
FoldOut(acc, i) == IF i >= N THEN acc ELSE FoldOut(FoldRecord(acc, out[i]), i + 1)

C14_StepOK ==
  cancelled =>
    /\ nextI' = nextI
    /\ started' = started
    /\ \A w \in Procs :
         (wpc[w] \in {"lastCommit", "activity", "languages", "contributors"}
            /\ wpc'[w] # wpc[w]) => wpc'[w] = "exited"
    /\ \A i \in DOMAIN out : started[i] = 0 => out'[i] = outRepo(repos[i])

C14_StateOK ==
  mainPc = "done" =>
    files[1].summary = SummaryJSON(FinishSummary(FoldOut(NewSummary(sum[1].GeneratedAt), 0)))

C14_CancellationStopsEnrichment == [](C14_StateOK) /\ [][C14_StepOK]_vars

\* C15: every record of the index file written passes the checks of
\* validateRepos, whatever the outcomes of the record's four fetches: the six
\* required keys are present with their types, and weekly_commits_52w, being
\* present, is an array.
C15_EveryRecordValid ==
  mainPc = "done" =>
    \A i \in DOMAIN files[1].index : validateRepo(MarshalRepo(files[1].index[i]))

\* C16: for a record whose commits endpoint answers successfully with an
\* empty list, fetchLastCommit returns no error, the record's last-commit
\* timestamp and message are empty in every state, and the job still calls
\* the other three fetchers and stores what they return.
C16_ZeroCommits ==
  \A i \in DOMAIN out :
    upstream[i].commits = "zero" =>
      /\ ~fetchLastCommit(upstream[i], out[i].FullName).err
      /\ out[i].LastCommitAt = "" /\ out[i].LastCommitMessage = <<>>
      /\ \A w \in Procs :
           (job[w] = i /\ wpc[w] \in {"lock", "load", "store", "pace"}) =>
             /\ calls[w] = FetcherOrder
             /\ out[i] = StoreContributors(
                           StoreLanguages(
                             StoreActivity(outRepo(repos[i]),
                                           RefActivity(upstream[i], 0, out[i].FullName)),
                             fetchLanguages(upstream[i], out[i].FullName)),
                           fetchContributors(upstream[i], out[i].FullName))

\* A job on a repository without commits is at its end with the results of
\* the other three fetches stored.
C16_Witness ==
  \E w \in Procs :
    /\ wpc[w] = "pace" /\ upstream[job[w]].commits = "zero"
    /\ out[job[w]].LastCommitAt = ""
    /\ GoLen(out[job[w]].WeeklyCommits52W) = WindowLen
    /\ DOMAIN out[job[w]].LanguageBreakdown # {}
    /\ out[job[w]].ContributorCount = 2

\* C17: once the last-commit fetch of a job has returned a commit, the
\* message stored is the first 100 characters of the commit's message
\* followed by "..." when the message is longer than 100, and the message
\* itself when its length is at most 100.
C17_MessageTruncation ==
  \A i \in DOMAIN out :
    (After(i, {"lastCommit"}) /\ ~Failed(upstream[i].commits) /\ upstream[i].commits # "zero") =>
      LET m == CommitMsg(upstream[i].commits)
          stored == out[i].LastCommitMessage
      IN IF Len(m) > 100
         THEN /\ Len(stored) = 103
              /\ \A k \in 1..100 : stored[k] = m[k]
              /\ \A k \in 101..103 : stored[k] = "."
         ELSE stored = m

\* One record holds a message of exactly 100 characters whole, the other a
\* longer one cut to 100 and the marker.
C17_Witness ==
  /\ N = 2 /\ finished[0] = 1 /\ finished[1] = 1
  /\ upstream[0].commits = "cap" /\ Len(out[0].LastCommitMessage) = 100
  /\ upstream[1].commits = "longer" /\ Len(out[1].LastCommitMessage) = 103

\* C18: in every state, from before the workers start to the writing of the
\* files, out has the indices of the listing and out[i] is the record of
\* the listing's i-th repository (same full name, same place); no step
\* changes the indices of out or the full name at any index, and the index
\* file written is that list.
C18_StateOK ==
  /\ DOMAIN out = DOMAIN repos
  /\ DOMAIN out = 0..(N - 1)
  /\ \A i \in DOMAIN out : out[i].FullName = repos[i].FullName
  /\ files # <<>> =>
        /\ DOMAIN files[1].index = DOMAIN repos
        /\ \A i \in DOMAIN repos : files[1].index[i].FullName = repos[i].FullName

C18_StepOK ==
  /\ repos' = repos
  /\ DOMAIN out' = DOMAIN out
  /\ \A i \in DOMAIN out : out'[i].FullName = out[i].FullName

C18_ListFixed == [](C18_StateOK) /\ [][C18_StepOK]_vars

\* Past the barrier with two records, both enriched by different fetches.
C18_Witness ==
  /\ mainPc = "summary" /\ N = 2 /\ workers = 2
  /\ out[0].LastCommitAt # "" /\ out[1].StatsCachePending
  /\ out[0].FullName # out[1].FullName

\* C19: completed is read and written only by the worker holding mu, one
\* worker at a time; it changes only by one, in the step that ends a
\* worker's completed++, once in each job; in every state it is the number
\* of jobs past that step, so it is N once main is past wg.Wait(); and the
\* job a worker takes is the head of the channel and a worker leaves its
\* loop exactly when the channel is closed and empty, whatever completed is.
InCounter == {w \in Procs : wpc[w] \in {"load", "store"}}

Counted ==
  Cardinality({i \in DOMAIN out : finished[i] = 1}) + Cardinality({w \in Procs : wpc[w] = "pace"})

C19_StateOK ==
  /\ Cardinality(InCounter) <= 1
  /\ \A w \in InCounter : mu = w
  /\ \A w \in Procs : wpc[w] = "store" => reg[w] = completed
  /\ completed = Counted
  /\ PastBarrier => completed = N

C19_StepOK ==
  /\ completed' # completed =>
        /\ completed' = completed + 1
        /\ \E w \in Procs : /\ wpc[w] = "store" /\ mu = w /\ wpc'[w] = "pace"
                             /\ \A v \in Procs \ {w} : wpc'[v] = wpc[v]
  /\ \A w \in Procs :
       (wpc[w] = "recv" /\ wpc'[w] # wpc[w]) =>
         IF jobs # <<>>
         THEN job'[w] = Head(jobs) /\ wpc'[w] = "lastCommit"
         ELSE closed /\ wpc'[w] = "exited"
  /\ \A w \in Procs :
       (wpc'[w] = "exited" /\ wpc[w] # "exited") => (wpc[w] = "recv" /\ closed /\ jobs = <<>>)

C19_CounterUnderLock == [](C19_StateOK) /\ [][C19_StepOK]_vars

\* One worker is between the read and the write of completed++ while the
\* other, its fetches done, waits for the lock.
C19_Witness ==
  \E w1, w2 \in Procs :
    /\ wpc[w1] = "store" /\ wpc[w2] = "lock" /\ mu = w1
    /\ completed = 0 /\ N = 2

\* C20: when GITHUB_TOKEN is empty after trimming, or the listing fails at
\* any of its pages, main panics before its worker loop: in every state of
\* such a run no worker is started, no job is started, no fetcher is called,
\* no record exists and no file is written; main's only steps lead to the
\* panic, and nothing happens after it.
ListingFails == fetchAllAccessibleRepos(listing, Cardinality(DOMAIN upstream)).err

Fatal == TrimSpace(token) = <<>> \/ ListingFails

C20_StateOK ==
  Fatal =>
    /\ mainPc \in {"token", "list", "panicked"}
    /\ \A w \in Procs : wpc[w] = "unstarted" /\ calls[w] = <<>> /\ reqs[w] = 0
    /\ \A i \in DOMAIN upstream : started[i] = 0
    /\ spawned = 0 /\ wgCount = 0
    /\ DOMAIN out = {}
    /\ files = <<>>

C20_StepOK ==
  /\ mainPc = "panicked" => vars' = vars
  /\ (Fatal /\ mainPc' # mainPc) =>
        \/ mainPc' = "panicked"
        \/ mainPc = "token" /\ mainPc' = "list" /\ TrimSpace(token) # <<>>

C20_FatalBeforeWorkers == [](C20_StateOK) /\ [][C20_StepOK]_vars

\* The token is good and the listing failed at its second page, after a
\* first page with repositories: main has panicked.
C20_Witness ==
  /\ mainPc = "panicked"
  /\ TrimSpace(token) = <<"g", "h", "p">> /\ Len(token) > 3
  /\ listing.failPage = 2 /\ Cardinality(DOMAIN upstream) = 2

\* C21: once the contributors fetch of a job has returned without error,
\* whatever list the endpoint sent, the record's contributor list has at
\* most 10 entries and is in descending order of contributions.
Descending(list) ==
  \A k \in 1..(Len(list) - 1) : list[k].Contributions >= list[k + 1].Contributions

C21_ContributorsCappedAndSorted ==
  \A i \in DOMAIN out :
    (~Failed(upstream[i].contribs)
       /\ After(i, {"lastCommit", "activity", "backoff", "languages", "contributors"})) =>
      /\ GoLen(out[i].TopContributors) <= 10
      /\ Descending(out[i].TopContributors.elems)

\* C22: a worker past the contributors fetch of a job keeps that job, and
\* takes nothing from the channel, until it has slept the 100 milliseconds
\* at the end of the iteration, whatever the four fetches returned: the only
\* way back to the receive is that sleep, every ended job has been followed
\* by it, and a job is taken only at the receive.
AfterFetches == {"lock", "load", "store", "pace"}

C22_StateOK ==
  /\ \A i \in DOMAIN out : paced[i] = IF finished[i] = 1 THEN 100 ELSE 0
  /\ \A w \in Procs : wpc[w] \in AfterFetches => job[w] \in DOMAIN out /\ paced[job[w]] = 0

C22_StepOK ==
  \A w \in Procs :
    /\ (wpc[w] \in AfterFetches /\ wpc'[w] # wpc[w]) =>
          /\ jobs' = jobs /\ started' = started
          /\ job'[w] = IF wpc[w] = "pace" THEN NoJob ELSE job[w]
          /\ wpc[w] = "pace" => wpc'[w] = "recv" /\ paced'[job[w]] = 100
          /\ wpc'[w] = "recv" => wpc[w] = "pace"
    /\ (wpc'[w] = "recv" /\ wpc[w] # "recv") => wpc[w] \in {"pace", "unstarted"}
    /\ (job'[w] # job[w] /\ job'[w] # NoJob) => wpc[w] = "recv" /\ job[w] = NoJob

C22_PaceBeforeNextJob == [](C22_StateOK) /\ [][C22_StepOK]_vars

\* The worker is in its second job, the first of which had a failed fetch,
\* and has slept after the first.
C22_Witness ==
  \E w \in Procs : \E i \in DOMAIN out :
    /\ InJob(w) /\ job[w] # i /\ finished[i] = 1 /\ paced[i] = 100
    /\ Failed(upstream[i].contribs) /\ workers = 1

\* C23 as stated: while a worker is in a backoff sleep or in the sleep at
\* the end of its iteration, every other worker that is inside a job, or is
\* at the receive with a job in the channel, can take a step; and the mutex
\* is held by no worker that is sleeping or fetching.
Sleeping(v) == wpc[v] \in {"backoff", "pace"}

HasWork(w) == InJob(w) \/ (wpc[w] = "recv" /\ jobs # <<>>)

NoLockAcrossSleepOrCall == \A w \in Procs : mu = w => wpc[w] \in {"load", "store"}

C23_OthersAlwaysEnabled ==
  /\ NoLockAcrossSleepOrCall
  /\ \A v \in Procs : Sleeping(v) =>
        \A w \in Procs \ {v} : HasWork(w) => ENABLED Worker(w)

\* C23 as amended: the same, except that a worker at mu.Lock() may have to
\* wait for the mutex, which is then held by a third worker that is not
\* sleeping and can itself take a step.
C23_SleeperBlocksNoOne ==
  /\ NoLockAcrossSleepOrCall
  /\ \A v \in Procs : Sleeping(v) =>
        \A w \in Procs \ {v} : HasWork(w) =>
          \/ ENABLED Worker(w)
          \/ /\ wpc[w] = "lock" /\ mu \notin {0, v, w}
             /\ ~Sleeping(mu) /\ ENABLED Worker(mu)

\* One worker sleeps in its backoff, a second is inside completed++, and a
\* third waits for the lock.
C23_Witness ==
  \E v, u, w \in Procs :
    /\ wpc[v] = "backoff" /\ wpc[u] = "load" /\ mu = u /\ wpc[w] = "lock"

\* C24: once the summary loop is over, each coverage counter is the number
\* of records holding a non-empty value of its kind (last-commit timestamp,
\* weekly totals, language breakdown, contributor list), which is the number
\* of records whose fetch of that kind returned a non-empty value, and
\* ReposStatsPending is the number of records whose pending flag is set.
Count(S) == Cardinality(S)

C24_CoverageCounters ==
  mainPc \in {"write", "done"} =>
    LET e == sum[1].Enrichment
        I == DOMAIN out
    IN /\ e.ReposWithLastCommit = Count({i \in I : out[i].LastCommitAt # ""})
       /\ e.ReposWithLastCommit = Count({i \in I : upstream[i].commits \in {"ok", "long"}})
       /\ e.ReposWithStats52W = Count({i \in I : GoLen(out[i].WeeklyCommits52W) > 0})
       /\ e.ReposWithStats52W = Count({i \in I : \E a \in 0..(NumAttempts - 1) : ReadyAt(i, a)})
       /\ e.ReposWithLanguages = Count({i \in I : DOMAIN out[i].LanguageBreakdown # {}})
       /\ e.ReposWithLanguages = Count({i \in I : upstream[i].langs = "ok"})
       /\ e.ReposWithContributors = Count({i \in I : GoLen(out[i].TopContributors) > 0})
       /\ e.ReposWithContributors = Count({i \in I : upstream[i].contribs = "ok"})
       /\ e.ReposStatsPending = Count({i \in I : out[i].StatsCachePending})
       /\ e.ReposStatsPending = Count({i \in I : AllComputing(i)})

\* Two records: one fully enriched, the other with no commit, an empty
\* language map and an activity fetch that gave up pending.
C24_Witness ==
  /\ mainPc = "done" /\ N = 2
  /\ \E i \in DOMAIN out :
       /\ upstream[i].commits = "zero" /\ upstream[i].langs = "empty" /\ AllComputing(i)
  /\ sum[1].Enrichment.ReposWithLastCommit = 1 /\ sum[1].Enrichment.ReposWithStats52W = 1
  /\ sum[1].Enrichment.ReposWithLanguages = 1 /\ sum[1].Enrichment.ReposStatsPending = 1

\* C25: once the summary is finished, MostRecentUpdate and OldestUpdate are
\* the latest and the earliest of the records' UpdatedAt that parse as
\* RFC3339, MostRecentPush the latest such PushedAt and OldestCreated the
\* earliest such CreatedAt, each written in UTC, and each empty when no
\* record's timestamp for it parses; a record with a malformed timestamp
\* still counts in the record total and the size total.
Instants(field) ==
  { ParseRFC3339(out[i][field]).t : i \in {j \in DOMAIN out : ParseRFC3339(out[j][field]).ok} }

Latest(S) == CHOOSE t \in S : \A u \in S : u <= t

Earliest(S) == CHOOSE t \in S : \A u \in S : t <= u

RECURSIVE SumSizeKB(_)
SumSizeKB(i) == IF i >= N THEN 0 ELSE out[i].SizeKB + SumSizeKB(i + 1)

C25_TimestampExtremes ==
  mainPc \in {"write", "done"} =>
    LET a == sum[1].Activity
        up == Instants("UpdatedAt")
        pu == Instants("PushedAt")
        cr == Instants("CreatedAt")
    IN /\ a.MostRecentUpdate = IF up = {} THEN "" ELSE FormatUTC(Latest(up))
       /\ a.OldestUpdate = IF up = {} THEN "" ELSE FormatUTC(Earliest(up))
       /\ a.MostRecentPush = IF pu = {} THEN "" ELSE FormatUTC(Latest(pu))
       /\ a.OldestCreated = IF cr = {} THEN "" ELSE FormatUTC(Earliest(cr))
       /\ sum[1].RepoCounts.Total = N
       /\ sum[1].Size.TotalKB = SumSizeKB(0)

\* Two records: the UpdatedAt of one is malformed, so both update values
\* are the other's, while the push and creation values come from either.
C25_Witness ==
  /\ mainPc = "done" /\ N = 2
  /\ \E i, j \in DOMAIN out :
       /\ ~ParseRFC3339(out[i].UpdatedAt).ok /\ ParseRFC3339(out[j].UpdatedAt).ok
       /\ ParseRFC3339(out[i].CreatedAt).ok /\ ParseRFC3339(out[j].CreatedAt).ok
       /\ sum[1].Activity.OldestUpdate = sum[1].Activity.MostRecentUpdate
       /\ sum[1].Activity.OldestUpdate # ""
       /\ sum[1].Activity.OldestCreated # "" /\ sum[1].RepoCounts.Total = 2

\* C26: for a record whose languages endpoint answers successfully with an
\* empty map, fetchLanguages returns no error, the record's language
\* breakdown stays unset, and the job goes on to the contributors fetch and
\* stores its result; for a non-empty answer the breakdown stored is the
\* map returned.
C26_EmptyLanguages ==
  \A i \in DOMAIN out :
    LET full == out[i].FullName
        got == fetchContributors(upstream[i], full)
    IN /\ upstream[i].langs = "empty" =>
            /\ ~fetchLanguages(upstream[i], full).err
            /\ out[i].LanguageBreakdown = EmptyMap
            /\ MarshalRepo(out[i]).language_breakdown = "null"
            /\ \A w \in Procs :
                 (job[w] = i /\ wpc[w] \in AfterFetches) =>
                   /\ calls[w] = FetcherOrder
                   /\ ~got.err => /\ out[i].TopContributors = got.contribs
                                   /\ out[i].ContributorCount = got.total
       /\ (upstream[i].langs = "ok" /\ After(i, {"lastCommit", "activity", "backoff", "languages"})) =>
            /\ out[i].LanguageBreakdown = LangMap(full)
            /\ MarshalRepo(out[i]).language_breakdown = "object"

\* The languages endpoint sent an empty map and the job has stored the
\* contributors it fetched next.
C26_Witness ==
  \E w \in Procs :
    /\ wpc[w] = "lock" /\ upstream[job[w]].langs = "empty"
    /\ out[job[w]].LanguageBreakdown = EmptyMap
    /\ GoLen(out[job[w]].TopContributors) = 2

\* C27: for every record, in every state and so once main is past
\* wg.Wait(), the weekly totals have the length of the weekly statistics,
\* the k-th total is the Total of the k-th week, and TotalCommits is the sum
\* of the totals; it is 0 when the activity fetch failed or gave up pending.
C27_TotalsMatchStats ==
  \A i \in DOMAIN out :
    LET r == out[i]
    IN /\ GoLen(r.WeeklyCommits52W) = GoLen(r.WeeklyStats52W)
       /\ \A k \in 1..GoLen(r.WeeklyStats52W) :
            r.WeeklyCommits52W.elems[k] = r.WeeklyStats52W.elems[k].Total
       /\ r.TotalCommits = SumSeq(r.WeeklyCommits52W.elems)
       /\ (PastBarrier /\ (ActivityFailed(i) \/ AllComputing(i))) =>
            r.TotalCommits = 0 /\ GoLen(r.WeeklyCommits52W) = 0
       /\ (PastBarrier /\ \E a \in 0..(NumAttempts - 1) : ReadyAt(i, a)) =>
            /\ r.WeeklyStats52W.elems = Weeks(r.FullName)
            /\ r.TotalCommits > 0

\* Past the barrier with a record holding the weeks its endpoint sent after
\* two 202 answers.
C27_Witness ==
  /\ mainPc = "summary" /\ N = 1 /\ ReadyAt(0, 2)
  /\ GoLen(out[0].WeeklyCommits52W) = WindowLen
  /\ out[0].TotalCommits = SumSeq(out[0].WeeklyCommits52W.elems)
  /\ out[0].TotalCommits > out[0].WeeklyCommits52W.elems[WindowLen]

\* C28: a record whose pending flag is set has empty weekly sequences and
\* TotalCommits = 0, in every state and so at the barrier; no record is
\* counted by both ReposWithStats52W and ReposStatsPending, and while the
\* summary is folded and afterwards the two counters together never exceed
\* the number of records counted, nor the number of records.
C28_PendingExcludesStats ==
  /\ \A i \in DOMAIN out :
       /\ out[i].StatsCachePending =>
            /\ GoLen(out[i].WeeklyStats52W) = 0
            /\ GoLen(out[i].WeeklyCommits52W) = 0
            /\ out[i].TotalCommits = 0
       /\ ~(HasStats(out[i]) /\ out[i].StatsCachePending)
  /\ mainPc \in {"fold", "write", "done"} =>
       LET e == sum[1].Enrichment
       IN /\ e.ReposWithStats52W + e.ReposStatsPending <= sum[1].RepoCounts.Total
          /\ e.ReposWithStats52W + e.ReposStatsPending <= N
  /\ mainPc \in {"write", "done"} =>
       LET e == sum[1].Enrichment
           S == {i \in DOMAIN out : HasStats(out[i])}
           P == {i \in DOMAIN out : out[i].StatsCachePending}
       IN /\ S \cap P = {}
          /\ e.ReposWithStats52W = Count(S)
          /\ e.ReposStatsPending = Count(P)

\* The summary of two records, one pending and one with statistics: the two
\* counters add up to the record count.
C28_Witness ==
  /\ mainPc = "write" /\ N = 2
  /\ \E i, j \in DOMAIN out :
       /\ out[i].StatsCachePending /\ out[i].TotalCommits = 0
       /\ HasStats(out[j]) /\ ~out[j].StatsCachePending
  /\ sum[1].Enrichment.ReposWithStats52W + sum[1].Enrichment.ReposStatsPending = 2

\* C29: a record's pending flag is set, in any state and so at the barrier,
\* only if every one of the NumAttempts (five) requests of its activity fetch
\* was answered 202, and the job that set it sent exactly that many requests
\* and slept through the whole table.  A transport error (a timeout is one)
\* or a parse error at some request, also after 202 answers and sleeps, ends
\* the fetch there: the job sends no further activity request and sleeps no
\* more, the step changes no record, the flag stays false and the weekly
\* fields stay empty.
ErrorAt(i, a) ==
  /\ upstream[i].activity[a] \in {"neterr", "parseerr"}
  /\ \A a2 \in 0..(a - 1) : upstream[i].activity[a2] = "computing"

C29_StateOK ==
  \A i \in DOMAIN out :
    /\ out[i].StatsCachePending =>
         /\ AllComputing(i)
         /\ ActivityOver(i)
         /\ \A w \in Procs : (job[w] = i /\ InJob(w)) =>
              reqs[w] = NumAttempts /\ slept[w] = backoffs
    /\ \A a \in 0..(NumAttempts - 1) :
         ErrorAt(i, a) =>
           /\ \A w \in Procs :
                (job[w] = i /\ wpc[w] \in {"languages", "contributors"} \cup AfterFetches)
                  => reqs[w] = a + 1 /\ Len(slept[w]) = a
           /\ \A w \in Procs : job[w] = i => reqs[w] <= a + 1 /\ Len(slept[w]) <= a
           /\ out[i].WeeklyStats52W = NilSlice /\ out[i].WeeklyCommits52W = NilSlice
           /\ out[i].TotalCommits = 0 /\ ~out[i].StatsCachePending

C29_StepOK ==
  \A w \in Procs :
    /\ (wpc[w] = "activity" /\ upstream[job[w]].activity[attempt[w]] \in {"neterr", "parseerr"}
          /\ wpc'[w] # wpc[w]) =>
         wpc'[w] = "languages" /\ slept'[w] = slept[w] /\ out' = out
    /\ reqs'[w] > reqs[w] => wpc[w] = "activity" /\ reqs'[w] = reqs[w] + 1

C29_PendingOnlyAfterFiveComputing == [](C29_StateOK) /\ [][C29_StepOK]_vars

\* The fourth request met a transport error after three 202 answers and
\* three sleeps, and the job has gone on.
C29_Witness ==
  \E w \in Procs :
    /\ wpc[w] = "contributors" /\ ErrorAt(job[w], 3)
    /\ upstream[job[w]].activity[3] = "neterr"
    /\ reqs[w] = 4 /\ slept[w] = <<700, 1200, 2000>>
    /\ ~out[job[w]].StatsCachePending

\* C30: the buffer of jobs holds every index, so the dispatching loop can
\* take its next step in every state (it never waits for a worker), and the
\* channel is closed only after all N indices were sent; a worker leaves its
\* loop exactly when it finds the channel closed and empty; a job taken,
\* before or after the close, is an index the dispatcher sent and no worker
\* took before; some step is possible until the run has ended (no deadlock);
\* and in every run, those with N = 0 or N < W included, all W workers exit
\* and wg.Wait() returns.
Sent(i) == i < nextI

Queued(i) == \E k \in 1..Len(jobs) : jobs[k] = i

AllExited == \A w \in Procs : w <= workers => wpc[w] = "exited"

C30_StateOK ==
  /\ mainPc = "dispatch" => ENABLED Dispatch
  /\ Len(jobs) <= N
  /\ mainPc = "close" => nextI = N
  /\ closed => /\ nextI = N
               /\ \A i \in DOMAIN out : Queued(i) \/ started[i] = 1
  /\ \A i \in DOMAIN out :
       /\ Queued(i) => Sent(i) /\ started[i] = 0
       /\ started[i] = 1 => Sent(i)
  /\ \A w \in Procs : wpc[w] = "exited" => closed /\ jobs = <<>>
  /\ (ENABLED Next) \/ (mainPc = "done" /\ AllExited)

C30_StepOK ==
  \A w \in Procs :
    /\ (wpc[w] # "exited" /\ wpc'[w] = "exited") =>
         wpc[w] = "recv" /\ closed /\ jobs = <<>> /\ wgCount' = wgCount - 1
    /\ (wpc[w] = "recv" /\ wpc'[w] # "recv") =>
         IF closed /\ jobs = <<>>
         THEN wpc'[w] = "exited"
         ELSE /\ jobs # <<>> /\ job'[w] = Head(jobs) /\ jobs' = Tail(jobs)
              /\ Sent(job'[w]) /\ started[job'[w]] = 0

C30_Released == wgCount = 0 /\ AllExited /\ PastBarrier

C30_QueueNeverBlocksAndPoolExits ==
  [](C30_StateOK) /\ [][C30_StepOK]_vars /\ <>C30_Released

\* More workers than records: the one job is done, both workers have left
\* their loops and main is past wg.Wait().
C30_Witness ==
  /\ N = 1 /\ workers = 2 /\ mainPc = "summary"
  /\ AllExited /\ wgCount = 0 /\ closed /\ jobs = <<>>
  /\ started[0] = 1 /\ finished[0] = 1

\* C31: while the summary is folded and afterwards, the total repo count is
\* the number of records folded so far, public + private = total,
\* organization-owned + user-owned = total, and the archived and the fork
\* counts are each at most total; once the fold is over the total is N and
\* each count is the number of records of its kind, a record whose owner
\* type is anything but "Organization", the empty one included, being
\* user-owned.
C31_RepoCounts ==
  /\ mainPc \in {"fold", "write", "done"} =>
       LET c == sum[1].RepoCounts
       IN /\ c.Total = aggI
          /\ c.Public + c.Private = c.Total
          /\ c.Org + c.User = c.Total
          /\ c.Archived <= c.Total /\ c.Forks <= c.Total
          /\ c.Archived >= 0 /\ c.Forks >= 0 /\ c.Public >= 0 /\ c.Private >= 0
          /\ c.Org >= 0 /\ c.User >= 0
  /\ mainPc \in {"write", "done"} =>
       LET c == sum[1].RepoCounts
           I == DOMAIN out
       IN /\ c.Total = N
          /\ c.Private = Count({i \in I : out[i].Private})
          /\ c.Public = Count({i \in I : ~out[i].Private})
          /\ c.Archived = Count({i \in I : out[i].Archived})
          /\ c.Forks = Count({i \in I : out[i].Fork})
          /\ c.Org = Count({i \in I : out[i].OwnerType = "Organization"})
          /\ c.User = Count({i \in I : out[i].OwnerType # "Organization"})
          /\ c.User >= Count({i \in I : out[i].OwnerType = ""})

\* The finished summary of two records, one owned by an organization and one
\* with an empty owner type, which is counted as user-owned.
C31_Witness ==
  /\ mainPc = "write" /\ N = 2
  /\ \E i, j \in DOMAIN out :
       out[i].OwnerType = "Organization" /\ out[j].OwnerType = ""
  /\ sum[1].RepoCounts.Total = 2
  /\ sum[1].RepoCounts.Org = 1 /\ sum[1].RepoCounts.User = 1
====
